---- MODULE Spec2Model ----
(***************************************************************************)
(* Pronto (deco-cx/pronto): the idea store, the section preview/apply      *)
(* tools, the whole-document expansion workflow and the SectionEditor      *)
(* component, as state machines over the `ideas` table.                    *)
(*                                                                         *)
(* Every tool handler is cut at its awaits on the database and on the      *)
(* generation service: the code between two awaits is one atomic step, and *)
(* steps of different clients interleave freely (no locking in the code).  *)
(***************************************************************************)
EXTENDS Integers, Sequences, FiniteSets, TLC

VARIABLES
  ideas,        \* the `ideas` table: id -> row
  minted,       \* the idea ids crypto.randomUUID() has handed out
  evaluations,  \* the `evaluations` table, in insertion order
  now,          \* wall clock (seconds)
  call,         \* per client: the tool invocation in flight
  last,         \* what the step just taken returned to its caller, if it returned
  ncalls,       \* tool invocations made so far
  editor,       \* state of the SectionEditor component (view)
  previews,     \* history: <<ideaId, sectionKey, newData>> the editor's previews returned
  applied,      \* history: the apply that returned last, with the document it left
  probe,        \* a call of a schema function: its arguments and its result
  page          \* the idea page's query: what it fetched last, and its refetch timer

server == <<ideas, minted, evaluations, now, call, last, ncalls>>
aside == <<applied, probe, page>>
vars == <<ideas, minted, evaluations, now, call, last, ncalls, editor, previews, applied, probe,
         page>>

---------------------------------------------------------------------------
(* Bounds of the model *)

MaxAtom  == 1   \* distinct leaf values generated or passed in (0 is the initial content)
MaxTime  == 1   \* ticks of the wall clock
MaxCalls == 2   \* tool invocations in one behaviour

Atoms == 1..MaxAtom

(* two idea ids and two clients: enough for one idea to be left alone      *)
(* while the other is written, and for two invocations to overlap          *)
IdeaIds == {"i1", "i2"}
Procs   == {"c1", "c2"}
NoId    == "none"

---------------------------------------------------------------------------
(* JSON values.  Every value is a record of the same shape so that values  *)
(* of different JSON types can be compared.                                *)

Undefined == [t |-> "undefined", n |-> 0, o |-> <<>>]
Null      == [t |-> "null",      n |-> 0, o |-> <<>>]
EmptyList == [t |-> "array",     n |-> 0, o |-> <<>>]
Atom(n)   == [t |-> "atom",      n |-> n, o |-> <<>>]
Obj(f)    == [t |-> "object",    n |-> 0, o |-> f]

(* JS truthiness: undefined and null are falsy; objects, arrays (even      *)
(* empty ones) and the non-empty leaves of the model are truthy.           *)
Truthy(v) == v.t \notin {"undefined", "null"}

(* v?.[k] / v[k] on an object: the value at k, undefined when there is none *)
Get(v, k) ==
  IF v.t = "object" /\ k \in DOMAIN v.o THEN v.o[k] ELSE Undefined

Keys(v) == IF v.t = "object" THEN DOMAIN v.o ELSE {}

(* { ...base, [k]: v } : object spread followed by one computed key *)
Spread(base, k, v) ==
  Obj([x \in Keys(base) \cup {k} |-> IF x = k THEN v ELSE base.o[x]])

(* A column in { mode: 'json' } holds JSON.stringify(value): object keys   *)
(* whose value is undefined do not survive the write.                      *)
JsonColumn(v) ==
  IF v.t = "object"
  THEN Obj([x \in {y \in DOMAIN v.o : v.o[y] # Undefined} |-> v.o[x]])
  ELSE v

---------------------------------------------------------------------------
(* Section keys *)

(* the lookup table of GET_SECTION_SCHEMA *)
sectionSchemas ==
  {"title", "description", "features", "architecture", "dataModels",
   "tools", "views", "implementationPhases", "successMetrics"}

(* defaultSchemas.sections *)
defaultSections ==
  {"title", "description", "features", "architecture", "dataModels",
   "tools", "toolsFromOtherApps", "workflows", "views",
   "implementationPhases", "successMetrics"}

(* `required` of the whole-document schema *)
requiredSections ==
  {"title", "description", "features", "architecture", "dataModels",
   "tools", "views", "implementationPhases", "successMetrics"}

(* `required` of evaluationSchema: the six criteria *)
evaluationCriteria ==
  {"ambiguityAvoidance", "interestLevel", "marketPotential2025",
   "technicalFeasibility", "innovationLevel", "userValueProposition"}

(* section keys of the Edit buttons of ExpansionDisplay *)
viewSections ==
  {"description", "features", "architecture", "dataModels", "tools",
   "externalTools", "workflows", "views", "phases", "metrics"}

(* names every object literal inherits from Object.prototype: a lookup    *)
(* table[key] finds a truthy value under them (one of them is modelled)    *)
inheritedKeys == {"constructor"}

(* The keys callers pass in the model: two registered sections, and two    *)
(* keys that are no section, one of them an inherited name.                *)
InputKeys == {"title", "features", "doesNotExist", "constructor"}
ApplyKeys == {"title", "features", "doesNotExist"}

---------------------------------------------------------------------------
(* Schema descriptors, reduced to their top level: the type, the names of  *)
(* the properties and the required list.                                   *)

NoSchema == [type |-> "none", properties |-> {}, required |-> {}]

SectionType(k) ==
  IF k \in {"title", "description"} THEN "string"
  ELSE IF k = "architecture" THEN "object" ELSE "array"

SectionSchema(k) ==
  [type |-> SectionType(k),
   properties |-> IF k = "architecture" THEN {"files"} ELSE {},
   required |-> {}]

(* what sectionSchemas[key] finds under an inherited name: a function,     *)
(* with no description                                                     *)
InheritedSchema == [type |-> "function", properties |-> {}, required |-> {}]

(* execute of GET_SECTION_SCHEMA: const schema = sectionSchemas[key];      *)
(* if (!schema) throw; else { currentSchema: schema, success: true }       *)
createGetSectionSchemaTool(sectionKey) ==
  IF sectionKey \in sectionSchemas
  THEN [success |-> TRUE,  currentSchema |-> SectionSchema(sectionKey)]
  ELSE IF sectionKey \in inheritedKeys
  THEN [success |-> TRUE,  currentSchema |-> InheritedSchema]
  ELSE [success |-> FALSE, currentSchema |-> NoSchema]

(* utils: wrapSectionSchema, the one-key object schema *)
wrapSectionSchema(sectionKey) ==
  [type |-> "object", properties |-> {sectionKey}, required |-> {sectionKey}]

(* utils: extractSectionData, response[sectionKey]; throws when undefined *)
extractSectionData(response, sectionKey) ==
  [threw |-> Get(response, sectionKey) = Undefined,
   sectionData |-> Get(response, sectionKey)]

(* getCompleteExpansionSchema() without overrides *)
getCompleteExpansionSchema ==
  [type |-> "object", properties |-> defaultSections,
   required |-> requiredSections]

(* the schema INLINE_SUGGEST_EXTERNAL_TOOLS builds *)
externalToolsSchema ==
  [type |-> "object", properties |-> {"toolsFromOtherApps"},
   required |-> {"toolsFromOtherApps"}]

evaluationSchema ==
  [type |-> "object", properties |-> evaluationCriteria,
   required |-> evaluationCriteria]

---------------------------------------------------------------------------
(* The generation service (external): it throws, answers without an        *)
(* `object`, or answers with an object.  Nothing in the repository         *)
(* constrains which keys the object has.                                   *)

AIKeySets ==
  {{}, {"features"}, {"toolsFromOtherApps"},
   requiredSections, requiredSections \ {"title"}}

(* one answer to the evaluation rubric: { score, feedback } *)
Criterion(n) == Obj([f \in {"score", "feedback"} |-> Atom(n)])

AIObjects ==
  UNION ({[K -> {Atom(n)}] : K \in AIKeySets, n \in Atoms}
         \cup {[K -> {Criterion(n)}] :
                 K \in {evaluationCriteria, evaluationCriteria \ {"interestLevel"}},
                 n \in Atoms})

AIResponses ==
  {[threw |-> TRUE,  object |-> Undefined],
   [threw |-> FALSE, object |-> Undefined]}
  \cup {[threw |-> FALSE, object |-> Obj(f)] : f \in AIObjects}

---------------------------------------------------------------------------
(* Rows and invocations *)

NoRow == [exists |-> FALSE, expandedData |-> Null, updatedAt |-> 0]

Row(data, time) == [exists |-> TRUE, expandedData |-> data, updatedAt |-> time]

Idle ==
  [op |-> "idle", pc |-> "idle", ideaId |-> NoId, sectionKey |-> "",
   newData |-> Undefined, currentData |-> Null, previousData |-> Undefined,
   schema |-> NoSchema, expandedData |-> Undefined,
   toolsFromOtherApps |-> Undefined, steps |-> <<>>]

NoResult ==
  [op |-> "none", proc |-> "none", ideaId |-> NoId, sectionKey |-> "",
   newData |-> Undefined, success |-> FALSE, ret |-> Undefined,
   previousData |-> Undefined, schema |-> NoSchema, object |-> Undefined,
   aiCalled |-> FALSE, steps |-> <<>>]

(* client p, which has no invocation in flight, makes one *)
Invoke(p) ==
  /\ call[p].op = "idle"
  /\ ncalls < MaxCalls
  /\ ncalls' = ncalls + 1

(* the invocation of client p goes on as c and nothing is returned yet *)
Continue(p, c) ==
  /\ call' = [call EXCEPT ![p] = c]
  /\ last' = NoResult

(* the invocation of client p ends: its result is what the caller sees *)
Return(p, result) ==
  /\ call' = [call EXCEPT ![p] = Idle]
  /\ last' = result

Result(p, c, ok, ret, object, aiCalled) ==
  [op |-> c.op, proc |-> p, ideaId |-> c.ideaId, sectionKey |-> c.sectionKey,
   newData |-> c.newData, success |-> ok, ret |-> ret,
   previousData |-> c.previousData, schema |-> c.schema, object |-> object,
   aiCalled |-> aiCalled, steps |-> c.steps]

(* a select that finds a row under every id *)
selectOrBlank(table, id) == <<table[id]>>

(* db.select().from(ideas).where(eq(ideas.id, id)).limit(1): the rows found *)
selectIdea(table, id) == IF table[id].exists THEN <<table[id]>> ELSE <<>>

(* a tool threw before it called the generator *)
Throw(p, c) == Return(p, Result(p, c, FALSE, Undefined, Undefined, FALSE))

---------------------------------------------------------------------------
(* The store as a behaviour can find it: every document below is one the   *)
(* tools can produce (null after CREATE_IDEA; the whole-document workflow  *)
(* stores the generated sections plus toolsFromOtherApps), and a row       *)
(* exists only under an id that was handed out.                            *)

FullDocument(n) ==
  Obj([k \in requiredSections \cup {"toolsFromOtherApps"} |-> Atom(n)])

(* no apply has returned; no schema function has been called *)
NoApply ==
  [ideaId |-> NoId, sectionKey |-> "", newData |-> Undefined, document |-> Null,
   times |-> 0]

NoProbe == [fn |-> "none"]

(* the idea page (/expand/:id) has not been opened: no query, no timer *)
NotVisited ==
  [mounted |-> "no", ideaId |-> NoId, argument |-> "none", data |-> Undefined,
   fetching |-> FALSE, timer |-> FALSE]

(* idea i1 was created and expanded (content 0); idea i2 was created and not yet       *)
(* expanded, or was never created                                          *)
InitStore ==
  /\ ideas \in {[i \in IdeaIds |-> IF i = "i1" THEN Row(FullDocument(0), 0) ELSE r] :
                  r \in {NoRow, Row(Null, 0)}}
  /\ minted = {i \in IdeaIds : ideas[i].exists}
  /\ now = 0
  /\ call = [p \in Procs |-> Idle]
  /\ last = NoResult
  /\ ncalls = 0
  /\ editor = [open |-> FALSE, ideaId |-> NoId, sectionKey |-> "",
               previewData |-> Null, showPreview |-> FALSE]
  /\ previews = {}
  /\ applied = NoApply
  /\ page = NotVisited

(* no idea has been evaluated *)
Init == InitStore /\ evaluations = <<>> /\ probe = NoProbe

Tick ==
  /\ now < MaxTime
  /\ now' = now + 1
  /\ last' = NoResult
  /\ UNCHANGED <<ideas, minted, evaluations, call, ncalls>>

---------------------------------------------------------------------------
(* Idea tools *)

(* CREATE_IDEA: one insert under a fresh id, expandedData null, updatedAt  *)
(* by the column default unixepoch()                                       *)
CreateIdea(p, id) ==
  /\ Invoke(p)
  /\ id \notin minted
  /\ minted' = minted \cup {id}
  /\ ideas' = [ideas EXCEPT ![id] = Row(Null, now)]
  /\ Return(p, Result(p, [Idle EXCEPT !.op = "CREATE_IDEA", !.ideaId = id],
                      TRUE, Undefined, Undefined, FALSE))
  /\ UNCHANGED <<evaluations, now>>

(* GET_IDEA: one select; { idea: null } when there is no row *)
GetIdea(p, id) ==
  /\ Invoke(p)
  /\ Return(p, Result(p, [Idle EXCEPT !.op = "GET_IDEA", !.ideaId = id],
                      TRUE,
                      IF ideas[id].exists THEN ideas[id].expandedData ELSE Undefined,
                      Undefined, FALSE))
  /\ UNCHANGED <<ideas, minted, evaluations, now>>

(* DELETE_IDEA: select, "Idea not found" when there is no row, else delete *)
DeleteIdea_Select(p, id) ==
  /\ Invoke(p)
  /\ LET c == [Idle EXCEPT !.op = "DELETE_IDEA", !.ideaId = id] IN
     IF Len(selectIdea(ideas, id)) # 0
     THEN Continue(p, [c EXCEPT !.pc = "delete"])
     ELSE Throw(p, c)
  /\ UNCHANGED <<ideas, minted, evaluations, now>>

(* the rows of the evaluations table that name the idea, by position *)
evaluationsOf(id) ==
  {i \in 1..Len(evaluations) : evaluations[i].ideaId = id}

(* db.delete(ideas).where(eq(ideas.id, id)). The evaluations name the idea *)
(* by a foreign key declared without ON DELETE: where the database         *)
(* enforces it, deleting an idea that has evaluations is refused; where it *)
(* does not, the idea row goes and the evaluations stay.                   *)
DeleteIdea_Delete(p, enforced) ==
  /\ call[p].op = "DELETE_IDEA" /\ call[p].pc = "delete"
  /\ IF enforced /\ evaluationsOf(call[p].ideaId) # {}
     THEN /\ ideas' = ideas
          /\ Return(p, Result(p, call[p], FALSE, Undefined, Undefined, FALSE))
     ELSE /\ ideas' = [ideas EXCEPT ![call[p].ideaId] = NoRow]
          /\ Return(p, Result(p, call[p], TRUE, Undefined, Undefined, FALSE))
  /\ UNCHANGED <<minted, evaluations, now, ncalls>>

(* GET_SECTION_SCHEMA called as a tool of its own. Its outputSchema wants  *)
(* description to be a string: whether the runtime validates the output,   *)
(* and so rejects the result found under an inherited name, is outside the *)
(* source.                                                                 *)
GetSectionSchema(p, k, validated) ==
  /\ Invoke(p)
  /\ LET s == createGetSectionSchemaTool(k)
         c == [Idle EXCEPT !.op = "GET_SECTION_SCHEMA", !.sectionKey = k,
                           !.schema = s.currentSchema] IN
     Return(p, Result(p, c,
                      s.success /\ (k \in sectionSchemas \/ ~validated),
                      Undefined, Undefined, FALSE))
  /\ UNCHANGED <<ideas, minted, evaluations, now>>

---------------------------------------------------------------------------
(* RE_EXPAND_SECTION (the section preview)                                 *)

(* Up to the await on the generator: select the idea ("Idea not found"),   *)
(* read the previous section value, resolve the section schema by calling  *)
(* execute of GET_SECTION_SCHEMA (which throws when its lookup finds       *)
(* nothing), build the prompt and issue the generation call with           *)
(* `schema: sectionSchema`.                                                *)
ReExpandSection_Select(p, id, k) ==
  /\ Invoke(p)
  /\ LET c == [Idle EXCEPT !.op = "RE_EXPAND_SECTION", !.ideaId = id,
                           !.sectionKey = k]
         existingIdea == selectIdea(ideas, id)
         s == createGetSectionSchemaTool(k) IN
     IF Len(existingIdea) = 0 \/ ~s.success
     THEN Throw(p, c)
     ELSE Continue(p, [c EXCEPT !.pc = "generating",
                                !.previousData = Get(existingIdea[1].expandedData, k),
                                !.schema = s.currentSchema])
  /\ UNCHANGED <<ideas, minted, evaluations, now>>

(* const newSectionData = result.object *)
newSectionData(object, sectionKey) == object

(* a preview that stores what it generated *)
ReExpandSection_ReturnStoring(p, r) ==
  /\ call[p].op = "RE_EXPAND_SECTION" /\ call[p].pc = "generating"
  /\ IF r.threw \/ ~Truthy(r.object)
     THEN /\ Return(p, Result(p, call[p], FALSE, Undefined, r.object, TRUE))
          /\ ideas' = ideas
     ELSE /\ Return(p, Result(p, call[p], TRUE, r.object, r.object, TRUE))
          /\ ideas' = [ideas EXCEPT ![call[p].ideaId] =
                         Row(Spread(ideas[call[p].ideaId].expandedData,
                                    call[p].sectionKey, r.object), now)]
  /\ UNCHANGED <<minted, evaluations, now, ncalls>>

(* The generator answered: throw when it threw or sent no object, else     *)
(* return { sectionKey, newData, previousData, success: true }.            *)
ReExpandSection_Return(p, r) ==
  /\ call[p].op = "RE_EXPAND_SECTION" /\ call[p].pc = "generating"
  /\ IF r.threw \/ ~Truthy(r.object)
     THEN Return(p, Result(p, call[p], FALSE, Undefined, r.object, TRUE))
     ELSE Return(p, Result(p, call[p], TRUE,
                           newSectionData(r.object, call[p].sectionKey),
                           r.object, TRUE))
  /\ UNCHANGED <<ideas, minted, evaluations, now, ncalls>>

---------------------------------------------------------------------------
(* UPDATE_SECTION_DATA (the section apply)                                 *)

(* select the idea; "Idea not found" when there is no row *)
UpdateSectionData_Select(p, id, k, v) ==
  /\ Invoke(p)
  /\ LET c == [Idle EXCEPT !.op = "UPDATE_SECTION_DATA", !.ideaId = id,
                           !.sectionKey = k, !.newData = v]
         existingIdea == selectIdea(ideas, id) IN
     IF Len(existingIdea) = 0
     THEN Throw(p, c)
     ELSE Continue(p, [c EXCEPT !.pc = "update",
                                !.currentData = existingIdea[1].expandedData])
  /\ UNCHANGED <<ideas, minted, evaluations, now>>

(* a merge that keeps the value it replaces beside the new one *)
accumulatedData(existing, sectionKey, newData) ==
  Spread(IF Truthy(existing) THEN existing ELSE Obj(<<>>), sectionKey,
         Obj([x \in {"value", "previous"} |->
                IF x = "value" THEN newData ELSE Get(existing, sectionKey)]))

(* a whole-document replace by the one section *)
replacedData(existing, sectionKey, newData) ==
  Obj([x \in {sectionKey} |-> newData])

(* const currentData = existingIdea[0].expandedData || {};                 *)
(* const updatedData = { ...currentData, [sectionKey]: newData };          *)
updatedData(existing, sectionKey, newData) ==
  Spread(IF Truthy(existing) THEN existing ELSE Obj(<<>>), sectionKey, newData)

(* db.update(ideas).set({ expandedData, updatedAt }).where(eq(id)):        *)
(* changes the row when it still exists and no row when it does not        *)
updateIdeaRow(table, id, data, time) ==
  IF table[id].exists
  THEN [table EXCEPT ![id] = Row(JsonColumn(data), time)]
  ELSE table

(* an apply that refuses a previewed value when the document is no longer   *)
(* the one the preview was generated from                                  *)
UpdateSectionData_UpdateFresh(p) ==
  /\ call[p].op = "UPDATE_SECTION_DATA" /\ call[p].pc = "update"
  /\ IF \E pv \in previews :
          /\ pv.ideaId = call[p].ideaId /\ pv.sectionKey = call[p].sectionKey
          /\ pv.newData = call[p].newData
          /\ pv.document # ideas[call[p].ideaId].expandedData
     THEN /\ ideas' = ideas
          /\ Return(p, Result(p, call[p], FALSE, Undefined, Undefined, FALSE))
     ELSE /\ ideas' = updateIdeaRow(ideas, call[p].ideaId,
                         updatedData(call[p].currentData, call[p].sectionKey,
                                     call[p].newData),
                         now)
          /\ Return(p, Result(p, call[p], TRUE,
                              IF ideas[call[p].ideaId].exists
                              THEN ideas'[call[p].ideaId].expandedData ELSE Undefined,
                              Undefined, FALSE))
  /\ UNCHANGED <<minted, evaluations, now, ncalls>>

(* the update runs and the tool returns success: true with updated[0] *)
UpdateSectionData_Update(p) ==
  /\ call[p].op = "UPDATE_SECTION_DATA" /\ call[p].pc = "update"
  /\ ideas' = updateIdeaRow(ideas, call[p].ideaId,
                updatedData(call[p].currentData, call[p].sectionKey,
                            call[p].newData),
                now)
  /\ Return(p, Result(p, call[p], TRUE,
                      IF ideas[call[p].ideaId].exists
                      THEN ideas'[call[p].ideaId].expandedData ELSE Undefined,
                      Undefined, FALSE))
  /\ UNCHANGED <<minted, evaluations, now, ncalls>>

(* values a caller can pass as newData *)
InputValues == {Undefined} \cup {Atom(n) : n \in Atoms}

---------------------------------------------------------------------------
(* AI_GENERATE_OBJECT, the tool that forwards a request to the generation  *)
(* service and returns its response as it is                               *)

AIGenerateObject_Call(p, schema) ==
  /\ Invoke(p)
  /\ Continue(p, [Idle EXCEPT !.op = "AI_GENERATE_OBJECT", !.pc = "generating",
                              !.schema = schema])
  /\ UNCHANGED <<ideas, minted, evaluations, now>>

AIGenerateObject_Return(p, r) ==
  /\ call[p].op = "AI_GENERATE_OBJECT" /\ call[p].pc = "generating"
  /\ Return(p, Result(p, call[p], ~r.threw, r.object, r.object, TRUE))
  /\ UNCHANGED <<ideas, minted, evaluations, now, ncalls>>

---------------------------------------------------------------------------
(* EVALUATE_IDEA *)

EvaluateIdea_Call(p, id) ==
  /\ Invoke(p)
  /\ Continue(p, [Idle EXCEPT !.op = "EVALUATE_IDEA", !.pc = "generating",
                              !.ideaId = id, !.schema = evaluationSchema])
  /\ UNCHANGED <<ideas, minted, evaluations, now>>

(* reading result.object.<criterion>.score throws when the criterion is    *)
(* undefined or null                                                       *)
scoresThrow(object) ==
  \E k \in evaluationCriteria : ~Truthy(Get(object, k))

RECURSIVE SumScores(_, _)
SumScores(object, K) ==
  IF K = {} THEN 0
  ELSE LET k == CHOOSE x \in K : TRUE
       IN Get(Get(object, k), "score").n + SumScores(object, K \ {k})

(* an overall score that trusts the generator's own, when it gave one *)
suppliedOverallScore(object) ==
  IF Truthy(Get(object, "overallScore"))
  THEN <<Get(object, "overallScore").n, 1>>
  ELSE <<SumScores(object, evaluationCriteria), Cardinality(evaluationCriteria)>>

(* scores.reduce((sum, score) => sum + score, 0) / scores.length, kept as  *)
(* the pair <<sum, length>>                                                *)
overallScore(object) ==
  <<SumScores(object, evaluationCriteria), Cardinality(evaluationCriteria)>>

EvaluationRow(id, ideaId, criteria, score, time) ==
  [id |-> id, ideaId |-> ideaId, criteria |-> criteria,
   overallScore |-> score, createdAt |-> time]

(* crypto.randomUUID(): an id no stored evaluation has *)
evaluationId(rows) ==
  LET used == {rows[i].id : i \in 1..Len(rows)}
  IN IF used = {} THEN 1 ELSE 1 + CHOOSE m \in used : \A u \in used : u <= m

(* an evaluation run that keeps one evaluation per idea: it drops the      *)
(* idea's earlier evaluations as it stores the new one                     *)
EvaluateIdea_ReturnReplacing(p, r, enforced) ==
  /\ call[p].op = "EVALUATE_IDEA" /\ call[p].pc = "generating"
  /\ IF \/ r.threw \/ ~Truthy(r.object) \/ scoresThrow(r.object)
        \/ (enforced /\ ~ideas[call[p].ideaId].exists)
     THEN /\ Return(p, Result(p, call[p], FALSE, Undefined, r.object, TRUE))
          /\ evaluations' = evaluations
     ELSE /\ evaluations' =
               Append(SelectSeq(evaluations, LAMBDA e : e.ideaId # call[p].ideaId),
                      EvaluationRow(evaluationId(evaluations), call[p].ideaId,
                                    r.object, overallScore(r.object), now))
          /\ Return(p, Result(p, call[p], TRUE, r.object, r.object, TRUE))
  /\ UNCHANGED <<ideas, minted, now, ncalls>>

(* The generator answered. The insert names the idea by a foreign key:     *)
(* whether the database enforces it is a property of the deployment.       *)
EvaluateIdea_Return(p, r, enforced) ==
  /\ call[p].op = "EVALUATE_IDEA" /\ call[p].pc = "generating"
  /\ IF \/ r.threw \/ ~Truthy(r.object) \/ scoresThrow(r.object)
        \/ (enforced /\ ~ideas[call[p].ideaId].exists)
     THEN /\ Return(p, Result(p, call[p], FALSE, Undefined, r.object, TRUE))
          /\ evaluations' = evaluations
     ELSE /\ evaluations' = Append(evaluations,
                EvaluationRow(evaluationId(evaluations), call[p].ideaId,
                              r.object, overallScore(r.object), now))
          /\ Return(p, Result(p, call[p], TRUE, r.object, r.object, TRUE))
  /\ UNCHANGED <<ideas, minted, now, ncalls>>

---------------------------------------------------------------------------
(* COMPLETE_EXPANSION_WORKFLOW: expand, suggest external tools, update.    *)
(* `steps` lists the steps of the run that have completed.                 *)

Workflow_Start(p, id) ==
  /\ Invoke(p)
  /\ Continue(p, [Idle EXCEPT !.op = "WORKFLOW", !.pc = "expand", !.ideaId = id,
                              !.schema = getCompleteExpansionSchema])
  /\ UNCHANGED <<ideas, minted, evaluations, now>>

(* an expand step that stores what it generated *)
Workflow_ExpandStoring(p, r) ==
  /\ call[p].op = "WORKFLOW" /\ call[p].pc = "expand"
  /\ IF r.threw \/ ~Truthy(r.object)
     THEN /\ Return(p, Result(p, call[p], FALSE, Undefined, r.object, TRUE))
          /\ ideas' = ideas
     ELSE /\ Continue(p, [call[p] EXCEPT !.pc = "suggest",
                                         !.expandedData = r.object,
                                         !.schema = externalToolsSchema,
                                         !.steps = Append(@, "generate")])
          /\ ideas' = [ideas EXCEPT ![call[p].ideaId].expandedData = r.object]
  /\ UNCHANGED <<minted, evaluations, now, ncalls>>

(* INLINE_EXPAND_IDEA: throws without an object, else expandedData is the  *)
(* object                                                                  *)
Workflow_Expand(p, r) ==
  /\ call[p].op = "WORKFLOW" /\ call[p].pc = "expand"
  /\ IF r.threw \/ ~Truthy(r.object)
     THEN Return(p, Result(p, call[p], FALSE, Undefined, r.object, TRUE))
     ELSE Continue(p, [call[p] EXCEPT !.pc = "suggest",
                                      !.expandedData = r.object,
                                      !.schema = externalToolsSchema,
                                      !.steps = Append(@, "generate")])
  /\ UNCHANGED <<ideas, minted, evaluations, now, ncalls>>

(* toolsFromOtherApps: result.object.toolsFromOtherApps || [] *)
toolsFromOtherApps(object) ==
  IF Truthy(Get(object, "toolsFromOtherApps"))
  THEN Get(object, "toolsFromOtherApps") ELSE EmptyList

(* a workflow whose second step is taken only while the caller's page is  *)
(* there to wait for it                                                    *)
Workflow_SuggestWhileWatched(p, r) ==
  /\ page.mounted = "yes"
  /\ call[p].op = "WORKFLOW" /\ call[p].pc = "suggest"
  /\ IF r.threw \/ ~Truthy(r.object)
     THEN Return(p, Result(p, call[p], FALSE, Undefined, r.object, TRUE))
     ELSE Continue(p, [call[p] EXCEPT !.pc = "select",
                                      !.toolsFromOtherApps = toolsFromOtherApps(r.object),
                                      !.schema = NoSchema,
                                      !.steps = Append(@, "suggest")])
  /\ UNCHANGED <<ideas, minted, evaluations, now, ncalls>>

(* INLINE_SUGGEST_EXTERNAL_TOOLS *)
Workflow_Suggest(p, r) ==
  /\ call[p].op = "WORKFLOW" /\ call[p].pc = "suggest"
  /\ IF r.threw \/ ~Truthy(r.object)
     THEN Return(p, Result(p, call[p], FALSE, Undefined, r.object, TRUE))
     ELSE Continue(p, [call[p] EXCEPT !.pc = "select",
                                      !.toolsFromOtherApps = toolsFromOtherApps(r.object),
                                      !.schema = NoSchema,
                                      !.steps = Append(@, "suggest")])
  /\ UNCHANGED <<ideas, minted, evaluations, now, ncalls>>

(* { ...expandedData, toolsFromOtherApps: externalTools } *)
completeExpandedData(expandedData, externalTools) ==
  Spread(expandedData, "toolsFromOtherApps", externalTools)

(* INLINE_UPDATE_IDEA, its select: "Idea not found" without a row *)
Workflow_Select(p) ==
  /\ call[p].op = "WORKFLOW" /\ call[p].pc = "select"
  /\ IF Len(selectIdea(ideas, call[p].ideaId)) = 0
     THEN Return(p, Result(p, call[p], FALSE, Undefined, Undefined, FALSE))
     ELSE Continue(p, [call[p] EXCEPT !.pc = "update"])
  /\ UNCHANGED <<ideas, minted, evaluations, now, ncalls>>

(* db.update(ideas).set({ expandedData }).where(eq(id)); updatedAt is not  *)
(* set                                                                     *)
setExpandedData(table, id, data) ==
  IF table[id].exists
  THEN [table EXCEPT ![id].expandedData = JsonColumn(data)]
  ELSE table

(* INLINE_UPDATE_IDEA, its update, and the workflow's result *)
Workflow_Update(p) ==
  /\ call[p].op = "WORKFLOW" /\ call[p].pc = "update"
  /\ ideas' = setExpandedData(ideas, call[p].ideaId,
                completeExpandedData(call[p].expandedData,
                                     call[p].toolsFromOtherApps))
  /\ Return(p, Result(p, [call[p] EXCEPT !.steps = Append(@, "persist")], TRUE,
                      completeExpandedData(call[p].expandedData,
                                           call[p].toolsFromOtherApps),
                      Undefined, FALSE))
  /\ UNCHANGED <<minted, evaluations, now, ncalls>>

---------------------------------------------------------------------------
view == <<editor, previews, applied, probe, page>>

(* The idea tools and the section tools, called directly by two clients *)
Next ==
  \/ Tick /\ UNCHANGED view
  \/ \E p \in Procs, id \in IdeaIds : CreateIdea(p, id) /\ UNCHANGED view
  \/ \E p \in Procs, id \in IdeaIds : GetIdea(p, id) /\ UNCHANGED view
  \/ \E p \in Procs, id \in IdeaIds : DeleteIdea_Select(p, id) /\ UNCHANGED view
  \/ \E p \in Procs, enforced \in BOOLEAN :
        DeleteIdea_Delete(p, enforced) /\ UNCHANGED view
  \/ \E p \in Procs, k \in InputKeys, validated \in BOOLEAN :
        GetSectionSchema(p, k, validated) /\ UNCHANGED view
  \/ \E p \in Procs, id \in IdeaIds, k \in InputKeys :
        ReExpandSection_Select(p, id, k) /\ UNCHANGED view
  \/ \E p \in Procs, r \in AIResponses : ReExpandSection_Return(p, r) /\ UNCHANGED view
  \/ \E p \in Procs, id \in IdeaIds, k \in ApplyKeys, v \in InputValues :
        UpdateSectionData_Select(p, id, k, v) /\ UNCHANGED view
  \/ \E p \in Procs : UpdateSectionData_Update(p) /\ UNCHANGED view

Spec == Init /\ [][Next]_vars

(* The operations that call the generation service, called by one client  *)
(* while the other deletes ideas                                           *)
Generating == {"c1"}
Deleting   == {"c2"}

PipelineNext ==
  \/ \E p \in Deleting, id \in IdeaIds : DeleteIdea_Select(p, id) /\ UNCHANGED view
  \/ \E p \in Deleting, enforced \in BOOLEAN :
        DeleteIdea_Delete(p, enforced) /\ UNCHANGED view
  \/ \E p \in Generating, id \in IdeaIds : Workflow_Start(p, id) /\ UNCHANGED view
  \/ \E p \in Generating, r \in AIResponses : Workflow_Expand(p, r) /\ UNCHANGED view
  \/ \E p \in Generating, r \in AIResponses : Workflow_Suggest(p, r) /\ UNCHANGED view
  \/ \E p \in Generating : Workflow_Select(p) /\ UNCHANGED view
  \/ \E p \in Generating : Workflow_Update(p) /\ UNCHANGED view
  \/ \E p \in Generating, id \in IdeaIds : EvaluateIdea_Call(p, id) /\ UNCHANGED view
  \/ \E p \in Generating, r \in AIResponses, enforced \in BOOLEAN :
        EvaluateIdea_Return(p, r, enforced) /\ UNCHANGED view
  \/ \E p \in Generating : AIGenerateObject_Call(p, externalToolsSchema) /\ UNCHANGED view
  \/ \E p \in Generating, r \in AIResponses : AIGenerateObject_Return(p, r) /\ UNCHANGED view
  \/ \E p \in Generating, id \in IdeaIds, k \in InputKeys :
        ReExpandSection_Select(p, id, k) /\ UNCHANGED view
  \/ \E p \in Generating, r \in AIResponses : ReExpandSection_Return(p, r) /\ UNCHANGED view

SpecPipeline == Init /\ [][PipelineNext]_vars

---------------------------------------------------------------------------
(* Properties of the section tools, checked under Spec                     *)

(* a step of a RE_EXPAND_SECTION invocation: its first, which may be its   *)
(* last, or the one in which the generator answers                         *)
PreviewStep ==
  \E p \in Procs :
     /\ call'[p] # call[p]
     /\ \/ call[p].op = "RE_EXPAND_SECTION"
        \/ call'[p].op = "RE_EXPAND_SECTION"
        \/ (last'.op = "RE_EXPAND_SECTION" /\ last'.proc = p)

(* C1: a section preview, whether it succeeds or fails, writes nothing:    *)
(* every step of RE_EXPAND_SECTION leaves every idea row (document and     *)
(* updatedAt), the set of rows and the evaluations as they were.           *)
C1_PreviewWritesNothing ==
  [][PreviewStep =>
       /\ ideas' = ideas
       /\ minted' = minted
       /\ evaluations' = evaluations]_vars

(* a preview returned a new value for a section that has a stored value,   *)
(* and the store still holds the previous one                              *)
C1_PreviewReturned ==
  /\ last.op = "RE_EXPAND_SECTION" /\ last.success
  /\ Truthy(last.previousData)
  /\ last.ret # last.previousData
  /\ Get(ideas[last.ideaId].expandedData, last.sectionKey) = last.previousData

(* C2: a successful apply on an existing idea leaves the document the call *)
(* read with exactly newData at sectionKey: every other key is still there *)
(* with the same value, no other key is added, no other idea is changed.   *)
C2_ApplyReplacesOneKey ==
  [][\A p \in Procs :
       (UpdateSectionData_Update(p) /\ ideas[call[p].ideaId].exists) =>
         LET c == call[p]
             before == IF Truthy(c.currentData) THEN c.currentData ELSE Obj(<<>>)
             after == ideas'[c.ideaId].expandedData
         IN /\ last'.success
            /\ Get(after, c.sectionKey) = c.newData
            /\ \A k \in Keys(before) \ {c.sectionKey} :
                  k \in Keys(after) /\ Get(after, k) = Get(before, k)
            /\ Keys(after) \subseteq Keys(before) \cup {c.sectionKey}
            /\ \A j \in IdeaIds \ {c.ideaId} : ideas'[j] = ideas[j]]_vars

(* an apply replaced the title of an expanded idea and kept its features *)
C2_Applied ==
  /\ last.op = "UPDATE_SECTION_DATA" /\ last.success
  /\ last.sectionKey = "title" /\ last.newData = Atom(1)
  /\ ideas[last.ideaId].exists
  /\ Get(ideas[last.ideaId].expandedData, "title") = Atom(1)
  /\ Get(ideas[last.ideaId].expandedData, "features") = Atom(0)

(* C3: concurrent applies on different keys of one idea are disjoint       *)
(* writes: the write of an apply at sectionKey leaves every other key of   *)
(* the stored document at the value it had immediately before the write,   *)
(* so that a value another apply has stored meanwhile is not lost.         *)
C3_ConcurrentAppliesDisjoint ==
  [][\A p \in Procs :
       (UpdateSectionData_Update(p) /\ ideas[call[p].ideaId].exists) =>
         \A k \in Keys(ideas[call[p].ideaId].expandedData) \ {call[p].sectionKey} :
            Get(ideas'[call[p].ideaId].expandedData, k)
              = Get(ideas[call[p].ideaId].expandedData, k)]_vars

(* C7: a preview calls the generator with the section schema wrapped as a  *)
(* one-key object schema; the newData of a successful preview is the value *)
(* at sectionKey of the response object; a response object without that   *)
(* key makes the preview fail.                                             *)
C7_PreviewExtractsSection ==
  (last.op = "RE_EXPAND_SECTION" /\ last.aiCalled) =>
     /\ last.schema = wrapSectionSchema(last.sectionKey)
     /\ last.success =>
          /\ ~extractSectionData(last.object, last.sectionKey).threw
          /\ last.ret = extractSectionData(last.object, last.sectionKey).sectionData

(* C8: a preview or an apply for an idea id without a row fails, without   *)
(* a generation call, without creating a row and without any change to     *)
(* the store.                                                              *)
C8_AbsentIdeaFails ==
  [][\A p \in Procs, id \in IdeaIds :
       (/\ ~ideas[id].exists
        /\ \/ \E k \in InputKeys : ReExpandSection_Select(p, id, k)
           \/ \E k \in ApplyKeys, v \in InputValues :
                 UpdateSectionData_Select(p, id, k, v)) =>
         /\ last'.proc = p /\ last'.ideaId = id
         /\ ~last'.success /\ ~last'.aiCalled
         /\ call'[p] = Idle
         /\ ideas' = ideas /\ minted' = minted /\ evaluations' = evaluations]_vars

(* a preview of a registered section failed for an idea without a row *)
C8_PreviewOfAbsentIdea ==
  /\ last.op = "RE_EXPAND_SECTION" /\ ~last.success /\ ~last.aiCalled
  /\ last.sectionKey = "features"
  /\ ~ideas[last.ideaId].exists

(* C9: a section schema request or a preview for a key that is not a       *)
(* registered section fails, without a generation call and without any     *)
(* change to the store.                                                    *)
C9_UnknownSectionFails ==
  [][\A p \in Procs, k \in InputKeys \ sectionSchemas :
       (\/ \E validated \in BOOLEAN : GetSectionSchema(p, k, validated)
        \/ \E id \in IdeaIds : ReExpandSection_Select(p, id, k)) =>
         /\ last'.proc = p /\ last'.sectionKey = k
         /\ ~last'.success /\ ~last'.aiCalled
         /\ call'[p] = Idle
         /\ ideas' = ideas /\ minted' = minted /\ evaluations' = evaluations]_vars

(* a preview of "doesNotExist" failed for an idea that has a document *)
C9_PreviewOfUnknownSection ==
  /\ last.op = "RE_EXPAND_SECTION" /\ ~last.success /\ ~last.aiCalled
  /\ last.sectionKey = "doesNotExist"
  /\ Truthy(ideas[last.ideaId].expandedData)

---------------------------------------------------------------------------
(* Properties of the operations that generate, checked under SpecPipeline  *)

(* C4: the workflow runs generate, suggest, persist in that order; only    *)
(* the persist step writes, and only after both generation steps have      *)
(* succeeded; a run that fails has written nothing, so the document is not *)
(* replaced by a partially generated one.                                  *)
C4_WorkflowOrder ==
  [][\A p \in Procs :
       /\ (\/ \E id \in IdeaIds : Workflow_Start(p, id)
           \/ \E r \in AIResponses : Workflow_Expand(p, r)
           \/ \E r \in AIResponses : Workflow_Suggest(p, r)
           \/ Workflow_Select(p)) => ideas' = ideas
       /\ Workflow_Update(p) =>
            /\ call[p].steps = <<"generate", "suggest">>
            /\ Truthy(call[p].expandedData)
            /\ ideas[call[p].ideaId].exists =>
                 LET after == ideas'[call[p].ideaId].expandedData IN
                   /\ Get(after, "toolsFromOtherApps") = call[p].toolsFromOtherApps
                   /\ \A k \in Keys(call[p].expandedData) \ {"toolsFromOtherApps"} :
                         Get(after, k) = Get(call[p].expandedData, k)
       /\ (last'.op = "WORKFLOW" /\ last'.proc = p) =>
            IF last'.success
            THEN last'.steps = <<"generate", "suggest", "persist">>
            ELSE /\ ideas' = ideas
                 /\ last'.steps \in {<<>>, <<"generate">>, <<"generate", "suggest">>}]_vars

(* a run failed in its suggest step, after its generate step had answered, *)
(* and the idea still has the document it had                              *)
C4_FailedAfterGenerate ==
  /\ last.op = "WORKFLOW" /\ ~last.success
  /\ last.steps = <<"generate">>
  /\ ideas[last.ideaId].exists
  /\ ideas[last.ideaId].expandedData = FullDocument(0)

(* C5: every call site of the generation service turns a response without *)
(* an object into a failure of the calling operation: nothing is returned  *)
(* as a result and nothing is stored.                                      *)
C5_AbsentObjectFails ==
  [][\A p \in Procs, r \in AIResponses :
       (/\ ~r.threw /\ r.object = Undefined
        /\ \/ Workflow_Expand(p, r)
           \/ Workflow_Suggest(p, r)
           \/ \E enforced \in BOOLEAN : EvaluateIdea_Return(p, r, enforced)
           \/ ReExpandSection_Return(p, r)
           \/ AIGenerateObject_Return(p, r)) =>
         /\ last'.proc = p /\ ~last'.success
         /\ ideas' = ideas /\ evaluations' = evaluations]_vars

(* C6: a generation call succeeds only when the response object has every  *)
(* key of the top-level `required` list of the schema of the call; whole-  *)
(* document expansion, external-tools suggestion and evaluation fail on a  *)
(* response that misses one, and store nothing.                            *)
C6_RequiredKeysChecked ==
  [][\A p \in Procs, r \in AIResponses :
       (/\ ~r.threw /\ Truthy(r.object)
        /\ ~(call[p].schema.required \subseteq Keys(r.object))
        /\ \/ Workflow_Expand(p, r)
           \/ Workflow_Suggest(p, r)
           \/ \E enforced \in BOOLEAN : EvaluateIdea_Return(p, r, enforced)) =>
         /\ last'.proc = p /\ ~last'.success
         /\ ideas' = ideas /\ evaluations' = evaluations]_vars

---------------------------------------------------------------------------
(* The SectionEditor component, the caller of the two section tools in the *)
(* view. Its preview mutation runs as client c1 and its apply mutation as  *)
(* client c2: each button is disabled while its own mutation is pending.   *)
(* The editor is opened when no call of an earlier editor is in flight.    *)

PreviewMutation == "c1"
ApplyMutation   == "c2"

(* the Edit buttons the model presses: a registered section and one that   *)
(* is not                                                                  *)
EditorKeys == {"features", "phases"}

Closed ==
  [open |-> FALSE, ideaId |-> NoId, sectionKey |-> "",
   previewData |-> Null, showPreview |-> FALSE]

(* ExpansionDisplay, shown when the idea has expandedData: an Edit button  *)
(* mounts the editor with previewData null and showPreview false           *)
OpenEditor(id, k) ==
  /\ ~editor.open
  /\ \A p \in Procs : call[p].op = "idle"
  /\ ideas[id].exists /\ Truthy(ideas[id].expandedData)
  /\ k \in viewSections
  /\ editor' = [Closed EXCEPT !.open = TRUE, !.ideaId = id, !.sectionKey = k]
  /\ last' = NoResult
  /\ UNCHANGED <<ideas, minted, evaluations, now, call, ncalls, previews>>
  /\ UNCHANGED aside

(* onClose: the editor is unmounted *)
CloseEditor ==
  /\ editor.open
  /\ editor' = Closed
  /\ last' = NoResult
  /\ UNCHANGED <<ideas, minted, evaluations, now, call, ncalls, previews>>
  /\ UNCHANGED aside

(* handleGeneratePreview up to its await; a call that fails at once shows  *)
(* a toast and changes nothing in the editor                               *)
handleGeneratePreview ==
  /\ editor.open
  /\ ReExpandSection_Select(PreviewMutation, editor.ideaId, editor.sectionKey)
  /\ UNCHANGED <<editor, previews>>
  /\ UNCHANGED aside

(* the preview answers: setPreviewData(result.newData); setShowPreview(true) *)
(* on success, a toast on failure; an unmounted editor takes no state        *)
handleGeneratePreview_Resolve(r) ==
  /\ ReExpandSection_Return(PreviewMutation, r)
  /\ previews' = IF last'.success
                 THEN previews \cup {<<last'.ideaId, last'.sectionKey, last'.ret>>}
                 ELSE previews
  /\ editor' = IF last'.success /\ editor.open
               THEN [editor EXCEPT !.previewData = last'.ret, !.showPreview = TRUE]
               ELSE editor
  /\ UNCHANGED aside

(* an editor with nothing to apply: the button is shown at once *)
applyAlways(e) == e.open

(* the Apply button is rendered when showPreview && previewData, and       *)
(* handleApplyChanges returns at once when !previewData                    *)
applyOffered(e) == e.open /\ e.showPreview /\ Truthy(e.previewData)

(* handleApplyChanges up to the await inside UPDATE_SECTION_DATA *)
handleApplyChanges ==
  /\ applyOffered(editor)
  /\ UpdateSectionData_Select(ApplyMutation, editor.ideaId, editor.sectionKey,
                              editor.previewData)
  /\ UNCHANGED <<editor, previews>>
  /\ UNCHANGED aside

(* the apply answers: onUpdate(); onClose() *)
handleApplyChanges_Resolve ==
  /\ UpdateSectionData_Update(ApplyMutation)
  /\ editor' = Closed
  /\ previews' = previews
  /\ UNCHANGED aside

EditorNext ==
  \/ Tick /\ UNCHANGED view
  \/ \E id \in IdeaIds, k \in EditorKeys : OpenEditor(id, k)
  \/ CloseEditor
  \/ handleGeneratePreview
  \/ \E r \in AIResponses : handleGeneratePreview_Resolve(r)
  \/ handleApplyChanges
  \/ handleApplyChanges_Resolve

SpecEditor == Init /\ [][EditorNext]_vars

---------------------------------------------------------------------------
(* One client that applies section values one call after the other.        *)
(* `applied` keeps the arguments of the apply that returned last, the      *)
(* document it left, and how many times in a row these arguments were      *)
(* applied.                                                                *)

Applying == "c1"

Repeat_Select(id, k, v) ==
  /\ UpdateSectionData_Select(Applying, id, k, v)
  /\ UNCHANGED view

Repeat_Update ==
  /\ UpdateSectionData_Update(Applying)
  /\ LET c == call[Applying]
         same == /\ applied.ideaId = c.ideaId
                 /\ applied.sectionKey = c.sectionKey
                 /\ applied.newData = c.newData
     IN applied' = [ideaId |-> c.ideaId, sectionKey |-> c.sectionKey,
                    newData |-> c.newData,
                    document |-> ideas'[c.ideaId].expandedData,
                    times |-> IF same THEN applied.times + 1 ELSE 1]
  /\ UNCHANGED <<editor, previews, probe, page>>

RepeatNext ==
  \/ Tick /\ UNCHANGED view
  \/ \E id \in IdeaIds, k \in ApplyKeys, v \in InputValues : Repeat_Select(id, k, v)
  \/ Repeat_Update

SpecRepeat == Init /\ [][RepeatNext]_vars

(* C11: applying the same (ideaId, sectionKey, value) a second time in a   *)
(* row leaves the stored document as the first application left it.        *)
C11_ApplyIdempotent ==
  [][(/\ UpdateSectionData_Update(Applying)
      /\ applied.times >= 1
      /\ applied.ideaId = call[Applying].ideaId
      /\ applied.sectionKey = call[Applying].sectionKey
      /\ applied.newData = call[Applying].newData
      /\ ideas[call[Applying].ideaId].exists) =>
        ideas'[call[Applying].ideaId].expandedData = applied.document]_vars

(* the same title was applied twice in a row to an expanded idea *)
C11_AppliedTwice ==
  /\ applied.times = 2
  /\ applied.sectionKey = "title" /\ applied.newData = Atom(1)
  /\ ideas[applied.ideaId].expandedData = applied.document
  /\ Get(applied.document, "title") = Atom(1)
  /\ Get(applied.document, "features") = Atom(0)

---------------------------------------------------------------------------
(* C12: an idea has no document from its creation until a whole-document   *)
(* generation for it succeeds: a new row has none, and the only step that  *)
(* gives a document to a row that has none is the update of the workflow.  *)
C12_DocumentAbsentUntilGenerated ==
  [][\A id \in IdeaIds :
       /\ (~ideas[id].exists /\ ideas'[id].exists) =>
            ~Truthy(ideas'[id].expandedData)
       /\ (/\ ideas[id].exists /\ ~Truthy(ideas[id].expandedData)
           /\ ideas'[id].exists /\ Truthy(ideas'[id].expandedData)) =>
            \E p \in Procs : Workflow_Update(p) /\ call[p].ideaId = id]_vars

(* C13: when the workflow has reported success for an idea, the document   *)
(* stored for the idea has every one of the nine required keys.            *)
C13_GeneratedDocumentComplete ==
  (last.op = "WORKFLOW" /\ last.success /\ ideas[last.ideaId].exists) =>
     \A k \in requiredSections :
        Get(ideas[last.ideaId].expandedData, k) \notin {Undefined, Null}

----------------------------------------------------------------------------
(* Evaluations: EVALUATE_IDEA, GET_EVALUATION and DELETE_EVALUATION next   *)
(* to DELETE_IDEA, by both clients.                                        *)

(* an answer to the rubric with the scores 8, 7, 9, 6, 8, 7, to which the  *)
(* generator added an overall score of its own                             *)
sampleScores ==
  [ambiguityAvoidance |-> 8, interestLevel |-> 7, marketPotential2025 |-> 9,
   technicalFeasibility |-> 6, innovationLevel |-> 8, userValueProposition |-> 7]

sampleEvaluation ==
  Obj([k \in evaluationCriteria \cup {"overallScore"} |->
         IF k = "overallScore" THEN Atom(1)
         ELSE Obj([f \in {"score", "feedback"} |->
                     IF f = "score" THEN Atom(sampleScores[k]) ELSE Atom(1)])])

EvaluationResponses ==
  AIResponses \cup {[threw |-> FALSE, object |-> sampleEvaluation]}

(* an evaluation of idea "i1" that an earlier run stored *)
storedEvaluation ==
  LET object == Obj([k \in evaluationCriteria |-> Criterion(1)])
  IN EvaluationRow(1, "i1", object, overallScore(object), 0)

InitEvaluated ==
  InitStore /\ evaluations \in {<<>>, <<storedEvaluation>>} /\ probe = NoProbe

(* db.select().from(evaluations).where(eq(evaluations.ideaId, id))         *)
(* .limit(1): one of the rows of the idea. The query has no ORDER BY, so   *)
(* which one is the database's choice.                                     *)
selectEvaluation(rows, id) ==
  {<<rows[i]>> : i \in {j \in 1..Len(rows) : rows[j].ideaId = id}}

(* GET_EVALUATION: { evaluation: null } when the select finds nothing,     *)
(* else the row found. `ret` is the id of the evaluation returned.         *)
GetEvaluation(p, id) ==
  /\ Invoke(p)
  /\ LET c == [Idle EXCEPT !.op = "GET_EVALUATION", !.ideaId = id] IN
     IF selectEvaluation(evaluations, id) = {}
     THEN Return(p, Result(p, c, TRUE, Null, Undefined, FALSE))
     ELSE \E result \in selectEvaluation(evaluations, id) :
            Return(p, Result(p, c, TRUE, Atom(result[1].id), result[1].criteria, FALSE))
  /\ UNCHANGED <<ideas, minted, evaluations, now>>

(* DELETE_EVALUATION: every evaluation of the idea goes *)
DeleteEvaluation(p, id) ==
  /\ Invoke(p)
  /\ evaluations' = SelectSeq(evaluations, LAMBDA r : r.ideaId # id)
  /\ Return(p, Result(p, [Idle EXCEPT !.op = "DELETE_EVALUATION", !.ideaId = id],
                      TRUE, Undefined, Undefined, FALSE))
  /\ UNCHANGED <<ideas, minted, now>>

EvaluationNext ==
  \/ Tick /\ UNCHANGED view
  \/ \E p \in Procs, id \in IdeaIds : EvaluateIdea_Call(p, id) /\ UNCHANGED view
  \/ \E p \in Procs, r \in EvaluationResponses, enforced \in BOOLEAN :
        EvaluateIdea_Return(p, r, enforced) /\ UNCHANGED view
  \/ \E p \in Procs, id \in IdeaIds : GetEvaluation(p, id) /\ UNCHANGED view
  \/ \E p \in Procs, id \in IdeaIds : DeleteEvaluation(p, id) /\ UNCHANGED view
  \/ \E p \in Procs, id \in IdeaIds : DeleteIdea_Select(p, id) /\ UNCHANGED view
  \/ \E p \in Procs, enforced \in BOOLEAN :
        DeleteIdea_Delete(p, enforced) /\ UNCHANGED view

SpecEvaluation == InitEvaluated /\ [][EvaluationNext]_vars

(* C14: after a successful DELETE_IDEA of an idea no evaluation of that    *)
(* idea remains in the store.                                              *)
C14_DeleteCascades ==
  (last.op = "DELETE_IDEA" /\ last.success) => evaluationsOf(last.ideaId) = {}

(* the score stored under criterion k of an evaluation row *)
storedScore(row, k) == Get(Get(row.criteria, k), "score").n

(* C15: in every stored evaluation overallScore is the sum of the six      *)
(* criterion scores of that row divided by six, whatever overall score the *)
(* generator's answer carried.                                             *)
C15_OverallScoreIsMean ==
  \A i \in 1..Len(evaluations) :
     LET row == evaluations[i] IN
       /\ row.overallScore[2] = 6
       /\ row.overallScore[1] =
            storedScore(row, "ambiguityAvoidance") + storedScore(row, "interestLevel")
            + storedScore(row, "marketPotential2025") + storedScore(row, "technicalFeasibility")
            + storedScore(row, "innovationLevel") + storedScore(row, "userValueProposition")

(* an evaluation with the scores 8, 7, 9, 6, 8, 7 was stored from an       *)
(* answer that carried an overall score of its own; its mean is 7.5        *)
C15_SampleStored ==
  \E i \in 1..Len(evaluations) :
     /\ evaluations[i].criteria = sampleEvaluation
     /\ 2 * evaluations[i].overallScore[1] = 15 * evaluations[i].overallScore[2]

(* C16: a successful EVALUATE_IDEA adds exactly one evaluation, of the     *)
(* idea it was called for and under an id no stored evaluation has, and    *)
(* leaves every stored evaluation as it was; a failed one adds none.       *)
C16_EvaluationAppends ==
  [][last'.op = "EVALUATE_IDEA" =>
       IF last'.success
       THEN /\ Len(evaluations') = Len(evaluations) + 1
            /\ SubSeq(evaluations', 1, Len(evaluations)) = evaluations
            /\ evaluations'[Len(evaluations')].ideaId = last'.ideaId
            /\ \A i \in 1..Len(evaluations) :
                  evaluations[i].id # evaluations'[Len(evaluations')].id
       ELSE evaluations' = evaluations]_vars

(* an idea that had an evaluation was evaluated again and has both *)
C16_EvaluatedAgain ==
  /\ last.op = "EVALUATE_IDEA" /\ last.success
  /\ Cardinality(evaluationsOf(last.ideaId)) >= 2

(* the position of the evaluation that the latest successful run of the    *)
(* idea stored: rows are appended, so it is the last of the idea's rows    *)
latestEvaluation(id) ==
  CHOOSE i \in evaluationsOf(id) : \A j \in evaluationsOf(id) : j <= i

(* C17: GET_EVALUATION returns the evaluation that the latest successful   *)
(* run stored for the idea, and none only when the idea has none.          *)
C17_ReturnsMostRecent ==
  last.op = "GET_EVALUATION" =>
    IF evaluationsOf(last.ideaId) = {}
    THEN last.ret = Null
    ELSE last.ret = Atom(evaluations[latestEvaluation(last.ideaId)].id)

----------------------------------------------------------------------------
(* The schema functions of defaultSchemas.ts and utils, on descriptors in  *)
(* full: a descriptor is a function from the names of the fields it has    *)
(* (description, type, items, properties, required) to their values, and a *)
(* field it lacks is outside its domain.                                   *)

emptyObject == [f \in {} |-> ""]

(* { ...target, ...source }: the own fields of target, then those of       *)
(* source assigned over them                                               *)
objectSpread(target, source) ==
  [f \in DOMAIN target \cup DOMAIN source |->
     IF f \in DOMAIN source THEN source[f] ELSE target[f]]

(* a described string property; the text of a description is stood for by *)
(* the name of what it describes                                           *)
stringProperty(name) == [type |-> "string", description |-> name]

(* the properties of the items of the array sections *)
itemProperties(k) ==
  CASE k = "features"             -> {"title", "description"}
    [] k = "dataModels"           -> {"title", "schema"}
    [] k = "tools"                -> {"title", "description", "inputSchema", "outputSchema"}
    [] k = "toolsFromOtherApps"   -> {"service", "toolName", "description", "useCase"}
    [] k = "workflows"            -> {"title", "description", "trigger"}
    [] k = "views"                -> {"title", "pathTemplate", "description", "layoutExample"}
    [] k = "implementationPhases" -> {"title", "description", "duration", "tasks"}
    [] OTHER                      -> {}

objectItems(names) ==
  [type |-> "object",
   properties |-> [n \in names |->
                     IF n = "tasks"
                     THEN [type |-> "array", description |-> n,
                           items |-> stringProperty(n)]
                     ELSE stringProperty(n)],
   required |-> names]

(* defaultSchemas.sections[k] for a registered section k *)
defaultSchemas(k) ==
  IF SectionType(k) = "string" THEN [description |-> k, type |-> "string"]
  ELSE IF k = "architecture"
  THEN [description |-> k, type |-> "object",
        properties |-> [n \in {"files"} |->
                          [type |-> "array", description |-> n,
                           items |-> objectItems({"path", "description"})]]]
  ELSE IF k = "successMetrics"
  THEN [description |-> k, type |-> "array", items |-> stringProperty(k)]
  ELSE [description |-> k, type |-> "array", items |-> objectItems(itemProperties(k))]

(* an argument that may be left out *)
NotGiven == [given |-> FALSE, value |-> emptyObject]
Given(v) == [given |-> TRUE, value |-> v]

(* what table[key] finds in an object literal: the registered descriptor,  *)
(* under an inherited name a function (truthy, no own enumerable field),   *)
(* else undefined                                                          *)
lookupSection(key) ==
  IF key \in defaultSections THEN [found |-> TRUE, value |-> defaultSchemas(key)]
  ELSE IF key \in inheritedKeys THEN [found |-> TRUE, value |-> emptyObject]
  ELSE [found |-> FALSE, value |-> emptyObject]

(* an override that merges into nested structures instead of replacing     *)
(* them                                                                    *)
mergedSchemaForSection(sectionKey, overrides) ==
  LET baseSchema == lookupSection(sectionKey)
      base == baseSchema.value
      o == overrides.value
  IN IF ~baseSchema.found THEN [threw |-> TRUE, schema |-> emptyObject]
     ELSE [threw |-> FALSE,
           schema |->
             [f \in DOMAIN base \cup DOMAIN o |->
                IF f \notin DOMAIN o THEN base[f]
                ELSE IF f \in DOMAIN base /\ f \in {"items", "properties"}
                THEN objectSpread(base[f], o[f])
                ELSE o[f]]]

(* getSchemaForSection(sectionKey, overrides?): throws on an unknown key;  *)
(* overrides ? { ...baseSchema, ...overrides } : baseSchema                *)
getSchemaForSection(sectionKey, overrides) ==
  LET baseSchema == lookupSection(sectionKey)
  IN IF ~baseSchema.found THEN [threw |-> TRUE, schema |-> emptyObject]
     ELSE [threw |-> FALSE,
           schema |-> IF overrides.given
                      THEN objectSpread(objectSpread(emptyObject, baseSchema.value),
                                        overrides.value)
                      ELSE baseSchema.value]

(* getCompleteExpansionSchema(sectionOverrides?): a copy of the registered *)
(* sections in which every override whose key finds something in the copy  *)
(* is spread over what it finds                                            *)
completeExpansionSchema(sectionOverrides) ==
  LET given == IF sectionOverrides.given THEN sectionOverrides.value ELSE emptyObject
      overridden == {key \in DOMAIN given : lookupSection(key).found}
      sections == [key \in defaultSections \cup overridden |->
                     IF key \in overridden
                     THEN objectSpread(lookupSection(key).value, given[key])
                     ELSE defaultSchemas(key)]
  IN [type |-> "object", properties |-> sections, required |-> requiredSections]

(* !schema.f for a text field: the field is missing or the empty string *)
missingText(d, f) == f \notin DOMAIN d \/ d[f] = ""

(* the properties that have no description *)
missingDescriptions(properties) ==
  {key \in DOMAIN properties : missingText(properties[key], "description")}

(* a validation that only asks for the type and leaves the rest to warnings *)
validateSchemaLenient(schema) ==
  IF ~schema.isObject THEN [valid |-> FALSE, errors |-> {"object"}]
  ELSE LET errors == IF missingText(schema.value, "type") THEN {"type"} ELSE {}
       IN [valid |-> errors = {}, errors |-> errors]

(* utils: validateSchema. `errors` names the checks that failed. *)
validateSchema(schema) ==
  IF ~schema.isObject THEN [valid |-> FALSE, errors |-> {"object"}]
  ELSE
    LET d == schema.value
        isType(t) == "type" \in DOMAIN d /\ d.type = t
        errors ==
          (IF missingText(d, "type") THEN {"type"} ELSE {})
          \cup (IF missingText(d, "description") THEN {"description"} ELSE {})
          \cup (IF ~isType("array") THEN {}
                ELSE IF "items" \notin DOMAIN d THEN {"items"}
                ELSE IF /\ missingText(d.items, "description")
                        /\ "properties" \in DOMAIN d.items
                        /\ missingDescriptions(d.items.properties) # {}
                THEN {"itemProperties"} ELSE {})
          \cup (IF /\ isType("object") /\ "properties" \in DOMAIN d
                   /\ missingDescriptions(d.properties) # {}
                THEN {"properties"} ELSE {})
    IN [valid |-> errors = {}, errors |-> errors]

----------------------------------------------------------------------------
(* The schema functions called on their own: the arguments are drawn at    *)
(* the start and `probe` records the call and what it returned.            *)

(* the overrides of a section: any of a new description, a new type and    *)
(* new items                                                               *)
SectionOverride(fields) ==
  [f \in fields |->
     CASE f = "description" -> "B"
       [] f = "type"        -> "string"
       [] f = "items"       -> [type |-> "string"]]

Overrides == {SectionOverride(F) : F \in SUBSET {"description", "type", "items"}}

(* overrides of several sections at once, under registered keys and under  *)
(* keys that are no section                                                *)
SectionOverrideMaps ==
  UNION {[K -> {SectionOverride({"description"}), SectionOverride({"items"})}] :
           K \in SUBSET InputKeys}

(* descriptors to validate: with or without a type, a description, items   *)
(* and properties, the nested property with or without a description       *)
oneProperty(described) ==
  [n \in {"name"} |->
     IF described THEN stringProperty(n) ELSE [type |-> "string"]]

DescriptorTypes == {"", "string", "array", "object"}
NestedChoices == {"none", "described", "undescribed"}

Descriptor(type, described, items, properties) ==
  LET has(f) == CASE f = "type"        -> type # ""
                  [] f = "description" -> described
                  [] f = "items"       -> items # "none"
                  [] f = "properties"  -> properties # "none"
  IN [f \in {g \in {"type", "description", "items", "properties"} : has(g)} |->
        CASE f = "type"        -> type
          [] f = "description" -> "A"
          [] f = "items"       -> [type |-> "object",
                                   properties |-> oneProperty(items = "described")]
          [] f = "properties"  -> oneProperty(properties = "described")]

Descriptors ==
  {Descriptor(t, d, i, q) : t \in DescriptorTypes, d \in BOOLEAN,
                            i \in NestedChoices, q \in NestedChoices}

NoCall ==
  [fn |-> "none", pending |-> "", sectionKey |-> "", overrides |-> NotGiven,
   sectionOverrides |-> NotGiven,
   schema |-> [isObject |-> FALSE, value |-> emptyObject],
   threw |-> FALSE, result |-> emptyObject, valid |-> FALSE, errors |-> {}]

ProbeInputs ==
  {[NoCall EXCEPT !.pending = "getSchemaForSection", !.sectionKey = k, !.overrides = o] :
     k \in defaultSections \cup InputKeys,
     o \in {NotGiven} \cup {Given(v) : v \in Overrides}}
  \cup {[NoCall EXCEPT !.pending = "getCompleteExpansionSchema", !.sectionOverrides = o] :
          o \in {NotGiven} \cup {Given(v) : v \in SectionOverrideMaps}}
  \cup {[NoCall EXCEPT !.pending = "validateSchema", !.schema = d] :
          d \in {[isObject |-> FALSE, value |-> emptyObject]}
                \cup {[isObject |-> TRUE, value |-> v] : v \in Descriptors}}

InitSchemas == InitStore /\ evaluations = <<>> /\ probe \in ProbeInputs

store == <<ideas, minted, evaluations, now, call, last, ncalls, editor, previews, applied,
          page>>

Call_getSchemaForSection ==
  /\ probe.fn = "none" /\ probe.pending = "getSchemaForSection"
  /\ LET r == getSchemaForSection(probe.sectionKey, probe.overrides)
     IN probe' = [probe EXCEPT !.fn = "getSchemaForSection",
                               !.threw = r.threw, !.result = r.schema]
  /\ UNCHANGED store

Call_getCompleteExpansionSchema ==
  /\ probe.fn = "none" /\ probe.pending = "getCompleteExpansionSchema"
  /\ probe' = [probe EXCEPT !.fn = "getCompleteExpansionSchema",
                            !.result = completeExpansionSchema(probe.sectionOverrides)]
  /\ UNCHANGED store

Call_validateSchema ==
  /\ probe.fn = "none" /\ probe.pending = "validateSchema"
  /\ LET r == validateSchema(probe.schema)
     IN probe' = [probe EXCEPT !.fn = "validateSchema",
                               !.valid = r.valid, !.errors = r.errors]
  /\ UNCHANGED store

SchemasNext ==
  \/ Call_getSchemaForSection
  \/ Call_getCompleteExpansionSchema
  \/ Call_validateSchema

SpecSchemas == InitSchemas /\ [][SchemasNext]_vars

(* C18: getSchemaForSection with an override of a registered section gives *)
(* every field of the override the override's value, nested structures     *)
(* included, and every other field the registered value; an empty override *)
(* gives a descriptor equal to the registered one, and the title           *)
(* descriptor overridden by {description: "B"} is {description: "B",       *)
(* type: "string"}.                                                        *)
C18_OverrideShallowMerges ==
  (/\ probe.fn = "getSchemaForSection"
   /\ probe.sectionKey \in defaultSections
   /\ probe.overrides.given) =>
     LET base == defaultSchemas(probe.sectionKey)
         o == probe.overrides.value
     IN /\ ~probe.threw
        /\ DOMAIN probe.result = DOMAIN base \cup DOMAIN o
        /\ \A f \in DOMAIN o : probe.result[f] = o[f]
        /\ \A f \in DOMAIN base \ DOMAIN o : probe.result[f] = base[f]
        /\ (DOMAIN o = {} => probe.result = base)
        /\ (probe.sectionKey = "title" /\ o = [description |-> "B"] =>
              probe.result = [description |-> "B", type |-> "string"])

(* the items of the features section were overridden: the result has the   *)
(* override's items and nothing of the registered items                    *)
C18_ItemsReplaced ==
  /\ probe.fn = "getSchemaForSection"
  /\ probe.sectionKey = "features"
  /\ probe.overrides.given
  /\ DOMAIN probe.overrides.value = {"items"}
  /\ probe.result.items = [type |-> "string"]
  /\ probe.result.type = "array"

(* C19: whatever section overrides are passed, the whole-document schema   *)
(* is an object descriptor whose properties are exactly the registered     *)
(* sections and whose required list is the fixed nine, each of them one of *)
(* the properties, workflows and toolsFromOtherApps not among them.        *)
C19_CompleteSchemaShape ==
  probe.fn = "getCompleteExpansionSchema" =>
    /\ probe.result.type = "object"
    /\ DOMAIN probe.result.properties = defaultSections
    /\ probe.result.required = requiredSections
    /\ probe.result.required \subseteq DOMAIN probe.result.properties
    /\ {"workflows", "toolsFromOtherApps"} \cap probe.result.required = {}

(* C19, own keys only: the same shape, for overrides under registered    *)
(* keys and under keys that find nothing in the registry                   *)
C19_CompleteSchemaShapeOwnKeys ==
  (/\ probe.fn = "getCompleteExpansionSchema"
   /\ DOMAIN probe.sectionOverrides.value \cap inheritedKeys = {}) =>
    /\ probe.result.type = "object"
    /\ DOMAIN probe.result.properties = defaultSections
    /\ probe.result.required = requiredSections

----------------------------------------------------------------------------
(* Prompts. A text is a sequence of pieces, the empty text the empty       *)
(* sequence; a prompt is the set of its parts, each a piece of fixed text  *)
(* around one interpolated value.                                          *)

(* `${x}` of a text that may be undefined *)
interpolate(text) == IF text.given THEN text.value ELSE <<"undefined">>

NoText == [given |-> FALSE, value |-> <<>>]
Text(t) == [given |-> TRUE, value |-> t]

(* if (customPrompt): a text that was given and is not empty *)
TruthyText(text) == text.given /\ text.value # <<>>

(* JSON.stringify(value, null, 2): keys whose value is undefined are left  *)
(* out                                                                     *)
JSONstringify(v) == JsonColumn(v)

TextPart(kind, text) == [kind |-> kind, text |-> text, data |-> Undefined]
DataPart(kind, data) == [kind |-> kind, text |-> <<>>, data |-> data]

(* schema.description of what sectionSchemas[key] finds: the description   *)
(* written in the table of GET_SECTION_SCHEMA, none on an inherited name   *)
sectionSchemaDescription(sectionKey) ==
  IF sectionKey \in sectionSchemas
  THEN Text(<<"sectionSchemas", sectionKey, "description">>)
  ELSE NoText

(* RE_EXPAND_SECTION from the schema lookup to the prompt it sends: no     *)
(* prompt when the lookup throws                                           *)
sectionPrompt(sectionKey, originalPrompt, customPrompt, currentData) ==
  LET sectionSchemaResult == createGetSectionSchemaTool(sectionKey)
      promptDescription ==
        IF TruthyText(customPrompt) THEN customPrompt
        ELSE sectionSchemaDescription(sectionKey)
  IN IF ~sectionSchemaResult.success THEN [threw |-> TRUE, prompt |-> {}]
     ELSE [threw |-> FALSE,
           prompt |-> {TextPart("generate ONLY the section", <<sectionKey>>),
                       TextPart("Original Idea", originalPrompt),
                       DataPart("Current Context", JSONstringify(currentData)),
                       TextPart("Section Requirements", interpolate(promptDescription))}]

(* getExternalToolsPrompt(expandedIdea, customPrompt?) *)
getExternalToolsPrompt(expandedIdea, customPrompt) ==
  IF TruthyText(customPrompt) THEN {TextPart("", customPrompt.value)}
  ELSE LET schema == getSchemaForSection("toolsFromOtherApps", NotGiven).schema
       IN {DataPart("expanded idea", JSONstringify(expandedIdea)),
           TextPart("description", <<schema.description>>),
           TextPart("Available Deco Platform Services", <<"services">>)}
          \cup {TextPart(n, <<schema.items.properties[n].description>>) :
                  n \in {"service", "toolName", "description", "useCase"}}

(* the custom prompts callers pass: none, the empty text, an instruction *)
CustomPrompts == {NoText, Text(<<>>), Text(<<"only 2 features">>)}

(* the documents a prompt is built around *)
PromptDocuments == {Null} \cup {FullDocument(n) : n \in 0..MaxAtom}

NoPrompt ==
  [fn |-> "none", pending |-> "", sectionKey |-> "", customPrompt |-> NoText,
   originalPrompt |-> <<>>, document |-> Null, threw |-> FALSE, prompt |-> {}]

PromptInputs ==
  {[NoPrompt EXCEPT !.pending = "sectionPrompt", !.sectionKey = k,
                    !.customPrompt = c, !.originalPrompt = <<"a todo app">>,
                    !.document = d] :
     k \in sectionSchemas \cup defaultSections \cup InputKeys,
     c \in CustomPrompts, d \in PromptDocuments}
  \cup {[NoPrompt EXCEPT !.pending = "getExternalToolsPrompt",
                         !.customPrompt = c, !.document = d] :
          c \in CustomPrompts, d \in PromptDocuments}

InitPrompts == InitStore /\ evaluations = <<>> /\ probe \in PromptInputs

Call_sectionPrompt ==
  /\ probe.fn = "none" /\ probe.pending = "sectionPrompt"
  /\ LET r == sectionPrompt(probe.sectionKey, probe.originalPrompt,
                            probe.customPrompt, probe.document)
     IN probe' = [probe EXCEPT !.fn = "sectionPrompt",
                               !.threw = r.threw, !.prompt = r.prompt]
  /\ UNCHANGED store

Call_getExternalToolsPrompt ==
  /\ probe.fn = "none" /\ probe.pending = "getExternalToolsPrompt"
  /\ probe' = [probe EXCEPT !.fn = "getExternalToolsPrompt",
                            !.prompt = getExternalToolsPrompt(probe.document,
                                                              probe.customPrompt)]
  /\ UNCHANGED store

PromptsNext ==
  \/ Call_sectionPrompt
  \/ Call_getExternalToolsPrompt

SpecPrompts == InitPrompts /\ [][PromptsNext]_vars

(* C21: a section prompt names the section as the only one to emit and     *)
(* carries the original idea and the serialized document; its requirements *)
(* are the custom prompt when one is supplied and the description found    *)
(* for the section otherwise.                                              *)
C21_SectionPromptParts ==
  (probe.fn = "sectionPrompt" /\ ~probe.threw) =>
    /\ TextPart("generate ONLY the section", <<probe.sectionKey>>) \in probe.prompt
    /\ TextPart("Original Idea", probe.originalPrompt) \in probe.prompt
    /\ DataPart("Current Context", probe.document) \in probe.prompt
    /\ \A part \in probe.prompt :
          part.kind = "Section Requirements" =>
            part.text = IF TruthyText(probe.customPrompt)
                        THEN probe.customPrompt.value
                        ELSE <<"sectionSchemas", probe.sectionKey, "description">>
    /\ \E part \in probe.prompt : part.kind = "Section Requirements"

(* C21, registered sections only: the same for the keys of the lookup      *)
(* table                                                                   *)
C21_SectionPromptPartsRegistered ==
  (probe.fn = "sectionPrompt" /\ probe.sectionKey \in sectionSchemas) =>
    /\ ~probe.threw
    /\ TextPart("generate ONLY the section", <<probe.sectionKey>>) \in probe.prompt
    /\ TextPart("Original Idea", probe.originalPrompt) \in probe.prompt
    /\ DataPart("Current Context", probe.document) \in probe.prompt
    /\ {part.text : part \in {q \in probe.prompt : q.kind = "Section Requirements"}}
         = {IF TruthyText(probe.customPrompt)
            THEN probe.customPrompt.value
            ELSE <<"sectionSchemas", probe.sectionKey, "description">>}

(* C22: with or without a custom prompt the external-tools prompt carries  *)
(* the document and the list of platform services; a custom prompt takes   *)
(* the place of the description of toolsFromOtherApps and of nothing else. *)
C22_ExternalToolsPromptParts ==
  probe.fn = "getExternalToolsPrompt" =>
    /\ DataPart("expanded idea", probe.document) \in probe.prompt
    /\ TextPart("Available Deco Platform Services", <<"services">>) \in probe.prompt
    /\ \/ ~TruthyText(probe.customPrompt)
       \/ \E part \in probe.prompt : part.text = probe.customPrompt.value

(* C22, no custom prompt: the prompt carries the document, the description *)
(* of toolsFromOtherApps and the list of platform services                 *)
C22_ExternalToolsPromptDefault ==
  (probe.fn = "getExternalToolsPrompt" /\ ~TruthyText(probe.customPrompt)) =>
    /\ DataPart("expanded idea", probe.document) \in probe.prompt
    /\ TextPart("description", <<"toolsFromOtherApps">>) \in probe.prompt
    /\ TextPart("Available Deco Platform Services", <<"services">>) \in probe.prompt

----------------------------------------------------------------------------
(* Writers of one document: a client that applies section values and one   *)
(* that replaces whole documents (UPDATE_IDEA, the workflow), each able to *)
(* delete the idea. A preview of the features of idea i1 was returned      *)
(* before the behaviour starts, when i1 had its first document.            *)

(* UPDATE_IDEA: select, "Idea not found" when there is no row *)
UpdateIdea_Select(p, id, data) ==
  /\ Invoke(p)
  /\ LET c == [Idle EXCEPT !.op = "UPDATE_IDEA", !.ideaId = id,
                           !.expandedData = data] IN
     IF Len(selectIdea(ideas, id)) = 0
     THEN Throw(p, c)
     ELSE Continue(p, [c EXCEPT !.pc = "update"])
  /\ UNCHANGED <<ideas, minted, evaluations, now>>

(* UPDATE_IDEA: db.update(ideas).set({ expandedData }), updatedAt left to  *)
(* the column default, which an update does not apply                      *)
UpdateIdea_Update(p) ==
  /\ call[p].op = "UPDATE_IDEA" /\ call[p].pc = "update"
  /\ ideas' = setExpandedData(ideas, call[p].ideaId, call[p].expandedData)
  /\ Return(p, Result(p, call[p], TRUE, Undefined, Undefined, FALSE))
  /\ UNCHANGED <<minted, evaluations, now, ncalls>>

(* the documents a caller passes to UPDATE_IDEA *)
InputDocuments == {Null} \cup {FullDocument(n) : n \in Atoms}

Replacing == "c2"

(* what the preview returned, and the document it was generated from *)
returnedPreview ==
  [ideaId |-> "i1", sectionKey |-> "features",
   newData |-> Obj([k \in {"features"} |-> Atom(1)]),
   document |-> FullDocument(0)]

InitWrites ==
  /\ ideas \in {[i \in IdeaIds |-> IF i = "i1" THEN Row(FullDocument(0), 0) ELSE r] :
                  r \in {NoRow, Row(Null, 0)}}
  /\ minted = {i \in IdeaIds : ideas[i].exists}
  /\ evaluations = <<>>
  /\ now = 0
  /\ call = [p \in Procs |-> Idle]
  /\ last = NoResult
  /\ ncalls = 0
  /\ editor = Closed
  /\ previews = {returnedPreview}
  /\ applied = NoApply
  /\ page = NotVisited
  /\ probe = NoProbe

WritesNext ==
  \/ Tick /\ UNCHANGED view
  \/ \E pv \in previews :
        UpdateSectionData_Select(Applying, pv.ideaId, pv.sectionKey, pv.newData)
        /\ UNCHANGED view
  \/ \E id \in IdeaIds, k \in ApplyKeys, v \in InputValues :
        UpdateSectionData_Select(Applying, id, k, v) /\ UNCHANGED view
  \/ UpdateSectionData_Update(Applying) /\ UNCHANGED view
  \/ \E id \in IdeaIds, data \in InputDocuments :
        UpdateIdea_Select(Replacing, id, data) /\ UNCHANGED view
  \/ UpdateIdea_Update(Replacing) /\ UNCHANGED view
  \/ \E id \in IdeaIds : Workflow_Start(Replacing, id) /\ UNCHANGED view
  \/ \E r \in AIResponses : Workflow_Expand(Replacing, r) /\ UNCHANGED view
  \/ \E r \in AIResponses : Workflow_Suggest(Replacing, r) /\ UNCHANGED view
  \/ Workflow_Select(Replacing) /\ UNCHANGED view
  \/ Workflow_Update(Replacing) /\ UNCHANGED view
  \/ \E p \in Procs, id \in IdeaIds : DeleteIdea_Select(p, id) /\ UNCHANGED view
  \/ \E p \in Procs, enforced \in BOOLEAN :
        DeleteIdea_Delete(p, enforced) /\ UNCHANGED view

SpecWrites == InitWrites /\ [][WritesNext]_vars

(* the apply in flight is the apply of a returned preview, and the         *)
(* document has changed since the preview and not since the apply read it  *)
StalePreviewApply(pv) ==
  LET c == call[Applying] IN
    /\ c.op = "UPDATE_SECTION_DATA" /\ c.pc = "update"
    /\ c.ideaId = pv.ideaId /\ c.sectionKey = pv.sectionKey /\ c.newData = pv.newData
    /\ ideas[c.ideaId].exists
    /\ ideas[c.ideaId].expandedData = c.currentData
    /\ ideas[c.ideaId].expandedData # pv.document

(* C23: an apply of a preview whose document was changed by another write  *)
(* after the preview returned succeeds, stores the previewed value under   *)
(* the section key, and leaves every other key as the document had it when *)
(* the apply ran.                                                          *)
C23_StalePreviewApplied ==
  [][\A pv \in previews :
       (StalePreviewApply(pv) /\ last'.op = "UPDATE_SECTION_DATA"
        /\ last'.proc = Applying) =>
         /\ last'.success
         /\ Get(ideas'[pv.ideaId].expandedData, pv.sectionKey) = pv.newData
         /\ \A k \in (defaultSections \cup Keys(ideas[pv.ideaId].expandedData))
                      \ {pv.sectionKey} :
               Get(ideas'[pv.ideaId].expandedData, k)
                 = Get(ideas[pv.ideaId].expandedData, k)]_vars

(* the preview was applied to a document that another write had replaced:  *)
(* the features are the previewed ones, the title is the replaced one      *)
C23_AppliedOverReplaced ==
  /\ last.op = "UPDATE_SECTION_DATA" /\ last.success
  /\ last.newData = returnedPreview.newData
  /\ Get(ideas["i1"].expandedData, "features") = returnedPreview.newData
  /\ Get(ideas["i1"].expandedData, "title") = Atom(1)
  /\ Get(returnedPreview.document, "title") = Atom(0)

(* C24: the write of a section apply leaves every key other than the       *)
(* applied one as it is stored when the write runs, so that a document     *)
(* replaced by UPDATE_IDEA or by the workflow while the apply was in       *)
(* flight keeps the replaced values under those keys.                      *)
C24_ApplyKeepsReplacedDocument ==
  [][(/\ call[Applying].op = "UPDATE_SECTION_DATA"
      /\ last'.op = "UPDATE_SECTION_DATA" /\ last'.proc = Applying
      /\ ideas[last'.ideaId].exists) =>
        \A k \in (defaultSections \cup Keys(ideas[last'.ideaId].expandedData))
                    \ {last'.sectionKey} :
           Get(ideas'[last'.ideaId].expandedData, k)
             = Get(ideas[last'.ideaId].expandedData, k)]_vars

(* C25: UPDATE_SECTION_DATA and the workflow report success only for a     *)
(* write that found the idea's row: right after either has returned        *)
(* success the idea exists.                                                *)
C25_SuccessOnlyForExistingIdea ==
  (last.op \in {"UPDATE_SECTION_DATA", "WORKFLOW"} /\ last.success) =>
     ideas[last.ideaId].exists

(* C25, the row: no write of a section apply, of UPDATE_IDEA or of the     *)
(* workflow brings back the row of an idea that was deleted                *)
C25_DeletedIdeaStaysDeleted ==
  [][\A id \in IdeaIds : ideas'[id].exists => ideas[id].exists]_vars

(* C26: every successful write of a document, by a section apply, by       *)
(* UPDATE_IDEA or by the workflow, leaves the row with updatedAt equal to  *)
(* the time of the write.                                                  *)
C26_WriteSetsUpdatedAt ==
  [][(/\ last'.op \in {"UPDATE_SECTION_DATA", "UPDATE_IDEA", "WORKFLOW"}
      /\ last' # last /\ last'.success
      /\ ideas'[last'.ideaId].exists) =>
        ideas'[last'.ideaId].updatedAt = now]_vars

(* C26, section apply only: a successful apply leaves the row with         *)
(* updatedAt equal to the time of the write                                *)
C26_ApplySetsUpdatedAt ==
  [][(/\ last'.op = "UPDATE_SECTION_DATA"
      /\ last' # last /\ last'.success
      /\ ideas'[last'.ideaId].exists) =>
        ideas'[last'.ideaId].updatedAt = now]_vars

----------------------------------------------------------------------------
(* C27: the keys the section-schema lookup of the preview accepts are the  *)
(* sections registered in defaultSchemas.sections: a preview passes the    *)
(* lookup exactly for a registered section.                                *)
C27_LookupAcceptsRegistered ==
  probe.fn = "sectionPrompt" =>
    (~probe.threw <=> probe.sectionKey \in defaultSections)

(* the key of the document that the view reads to display the section     *)
(* whose Edit button carries the key k                                     *)
displayedKey(k) ==
  CASE k = "externalTools" -> "toolsFromOtherApps"
    [] k = "phases"        -> "implementationPhases"
    [] k = "metrics"       -> "successMetrics"
    [] OTHER               -> k

(* C28: the key of an open editor is accepted by the section-schema lookup *)
(* and is the key under which the view reads the section, and a preview    *)
(* started from the editor gets past schema resolution to the generator.   *)
C28_EditKeysAccepted ==
  /\ editor.open =>
       /\ createGetSectionSchemaTool(editor.sectionKey).success
       /\ displayedKey(editor.sectionKey) = editor.sectionKey
  /\ (last.op = "RE_EXPAND_SECTION" /\ last.proc = PreviewMutation) => last.aiCalled

(* C28, the features button: its key is accepted by the lookup and read by *)
(* the view, and its preview reaches the generator                         *)
C28_FeaturesKeyAccepted ==
  /\ (editor.open /\ editor.sectionKey = "features") =>
       /\ createGetSectionSchemaTool(editor.sectionKey).success
       /\ displayedKey(editor.sectionKey) = editor.sectionKey
  /\ (/\ last.op = "RE_EXPAND_SECTION" /\ last.proc = PreviewMutation
      /\ last.sectionKey = "features") => last.aiCalled

---------------------------------------------------------------------------
(* The idea page (/expand/:id) and the whole-document workflow.            *)
(*                                                                         *)
(* useGetIdeaWithPolling fetches GET_IDEA when the page mounts, and after  *)
(* every fetch its refetchInterval callback decides whether another fetch  *)
(* is scheduled 4 seconds later.  The workflow runs on the server; the     *)
(* page only reads the row.                                                *)

(* what client.GET_IDEA({ id }) resolves to: { idea } with the row, or     *)
(* { idea: null }                                                          *)
getIdeaResponse(table, id) ==
  Obj([k \in {"idea"} |->
         IF Len(selectIdea(table, id)) # 0
         THEN Obj([f \in {"expandedData"} |-> table[id].expandedData])
         ELSE Null])

(* refetchInterval: false (0 here) once data?.data?.idea?.expandedData is  *)
(* truthy, else 4000                                                       *)
refetchInterval(data) ==
  IF Truthy(Get(Get(Get(data, "data"), "idea"), "expandedData")) THEN 0 ELSE 4000

(* What the query library hands to the callback is decided outside this    *)
(* repository: the fetched response itself, or an object that holds it     *)
(* under `data`.                                                           *)
QueryArguments == {"response", "wrapped"}

callbackArgument(shape, response) ==
  IF shape = "wrapped" THEN Obj([k \in {"data"} |-> response]) ELSE response

Viewer == "page"

(* the page is opened (enabled: !!id): the first fetch is sent *)
Page_Mount(id, shape) ==
  /\ page.mounted = "no"
  /\ page' = [page EXCEPT !.mounted = "yes", !.ideaId = id, !.argument = shape,
                          !.fetching = TRUE]
  /\ last' = NoResult
  /\ UNCHANGED <<ideas, minted, evaluations, now, call, ncalls>>
  /\ UNCHANGED <<editor, previews, applied, probe>>

(* GET_IDEA answers the page: the query takes the response and the         *)
(* callback decides whether a refetch is scheduled                         *)
Page_Fetched ==
  /\ page.mounted = "yes" /\ page.fetching
  /\ page' = [page EXCEPT
                !.fetching = FALSE,
                !.data = getIdeaResponse(ideas, page.ideaId),
                !.timer = refetchInterval(
                            callbackArgument(page.argument,
                                             getIdeaResponse(ideas, page.ideaId))) # 0]
  /\ last' = Result(Viewer, [Idle EXCEPT !.op = "GET_IDEA", !.ideaId = page.ideaId],
                    TRUE,
                    IF ideas[page.ideaId].exists
                    THEN ideas[page.ideaId].expandedData ELSE Undefined,
                    Undefined, FALSE)
  /\ UNCHANGED <<ideas, minted, evaluations, now, call, ncalls>>
  /\ UNCHANGED <<editor, previews, applied, probe>>

(* the 4-second timer fires: the next fetch is sent *)
Page_Refetch ==
  /\ page.mounted = "yes" /\ page.timer
  /\ page' = [page EXCEPT !.timer = FALSE, !.fetching = TRUE]
  /\ last' = NoResult
  /\ UNCHANGED <<ideas, minted, evaluations, now, call, ncalls>>
  /\ UNCHANGED <<editor, previews, applied, probe>>

(* the caller leaves the page: the query's timer goes with it *)
Page_Unmount ==
  /\ page.mounted = "yes"
  /\ page' = [page EXCEPT !.mounted = "left", !.fetching = FALSE, !.timer = FALSE]
  /\ last' = NoResult
  /\ UNCHANGED <<ideas, minted, evaluations, now, call, ncalls>>
  /\ UNCHANGED <<editor, previews, applied, probe>>

(* the steps the server takes for a workflow that was started *)
Workflow_Steps ==
  \/ \E p \in Generating, r \in AIResponses : Workflow_Expand(p, r) /\ UNCHANGED view
  \/ \E p \in Generating, r \in AIResponses : Workflow_Suggest(p, r) /\ UNCHANGED view
  \/ \E p \in Generating : Workflow_Select(p) /\ UNCHANGED view
  \/ \E p \in Generating : Workflow_Update(p) /\ UNCHANGED view

PollingNext ==
  \/ \E p \in Generating, id \in IdeaIds : Workflow_Start(p, id) /\ UNCHANGED view
  \/ Workflow_Steps
  \/ \E id \in IdeaIds, shape \in QueryArguments : Page_Mount(id, shape)
  \/ Page_Fetched
  \/ Page_Refetch
  \/ Page_Unmount

(* Every awaited call of a started workflow returns, every fetch of a     *)
(* mounted page is answered and its scheduled timer fires; nothing makes   *)
(* the caller open the page, stay on it or start a workflow.               *)
SpecPolling ==
  /\ Init
  /\ [][PollingNext]_vars
  /\ WF_vars(Workflow_Steps)
  /\ WF_vars(Page_Fetched)
  /\ WF_vars(Page_Refetch)

---------------------------------------------------------------------------
(* Properties of the workflow and of the polling page, checked under       *)
(* SpecPolling                                                             *)

(* C29: a workflow that was started runs to its end on the server whether  *)
(* or not the caller's page is there: as long as every awaited call        *)
(* returns, the run eventually ends with a failure, or ends successfully   *)
(* having taken all three steps, the last one being the update that        *)
(* persists the generated document.                                        *)
C29_WorkflowRunsToCompletion ==
  \A p \in Generating :
    (call[p].op = "WORKFLOW")
      ~> (/\ last.op = "WORKFLOW" /\ last.proc = p
          /\ last.success => last.steps = <<"generate", "suggest", "persist">>)

(* a run persisted its document after the caller had left the page *)
C29_PersistedAfterCallerLeft ==
  /\ page.mounted = "left"
  /\ last.op = "WORKFLOW" /\ last.success
  /\ last.steps = <<"generate", "suggest", "persist">>
  /\ ideas[last.ideaId].expandedData = last.ret

(* C30: the polling of the idea page ends: once the whole-document         *)
(* generation of an idea has finished, successfully or not, the page       *)
(* eventually has no fetch of that idea in flight or scheduled any more.   *)
C30_PollingEndsAfterGeneration ==
  \A id \in IdeaIds :
    [](last.op = "WORKFLOW" /\ last.ideaId = id
         => <>[]~(/\ page.mounted = "yes" /\ page.ideaId = id
                  /\ page.fetching \/ page.timer))

(* C30, the part that holds: as long as the idea the page fetched last has *)
(* no document, another fetch is scheduled or in flight.                   *)
C30_PollsWhileNoDocument ==
  (/\ page.mounted = "yes"
   /\ ~Truthy(Get(Get(page.data, "idea"), "expandedData")))
    => (page.fetching \/ page.timer)

(* the generation of the page's idea has just failed and a refetch is      *)
(* scheduled                                                               *)
C30_PollingAfterFailure ==
  /\ page.mounted = "yes" /\ page.timer
  /\ last.op = "WORKFLOW" /\ ~last.success /\ last.ideaId = page.ideaId

====
